---- MODULE Spec2Model ----
(***************************************************************************)
(* Model of server.js: the subscriber store (a Mongoose collection with a  *)
(* unique index on phoneNumber), the three HTTP handlers                   *)
(* (/api/weather, /api/subscribe, /api/unsubscribe) and the hourly alert   *)
(* job.  Every handler is an async function; it is cut into one action per *)
(* await, so that other handlers can run between two awaits as they do on  *)
(* the Node event loop.                                                    *)
(***************************************************************************)
EXTENDS Integers, Sequences, FiniteSets, TLC

VARIABLES
    store,      \* the Subscriber collection, in store-iteration order
    NODE_ENV,   \* process.env.NODE_ENV
    req,        \* req[c]: the HTTP request client c has in flight: the handler's
                \* position and locals, the calls it has made and its response
    job,        \* job[j]: one run of the cron callback
    tally       \* history: per phone number, the records created for it and the
                \* 200 responses of /api/unsubscribe for it

vars == <<store, NODE_ENV, req, job, tally>>

----------------------------------------------------------------------------
(* Bounds of the model *)

\* number of HTTP requests that can be in flight at the same time
NumClients == 2
\* number of subscribers in the collection when the server starts
MaxSubscribers == 3
\* largest number of hours the provider returns for a day
MaxHours == 2
\* largest number of days the provider returns
MaxDays == 8
\* largest number of records the history counts for one phone number
MaxTally == 2

(* Program constants *)

\* /^\d{10}$/
PhoneDigits == 10
\* weatherData.days.slice(0, 7)
DailyLimit == 7

Clients == 1..NumClients
\* the runs of the cron callback that can be in flight at the same time
Jobs == {"run1", "run2"}

----------------------------------------------------------------------------
(* Values *)

Digits == {"0", "1", "2", "3", "4", "5", "6", "7", "8", "9"}

\* Phone numbers are strings, modelled as sequences of characters.
PhoneA == <<"9", "8", "7", "6", "5", "4", "3", "2", "1", "0">>
PhoneB == <<"9", "0", "0", "0", "0", "0", "0", "0", "0", "1">>
PhoneC == <<"8", "1", "2", "3", "4", "5", "6", "7", "8", "9">>
PhoneD == <<"7", "0", "0", "0", "0", "0", "0", "0", "0", "4">>
PhoneShort == <<"9", "8", "7", "6", "5", "4", "3", "2", "1">>
PhoneLong == <<"9", "8", "7", "6", "5", "4", "3", "2", "1", "0", "0">>
PhoneAlpha == <<"9", "8", "7", "6", "5", "a", "3", "2", "1", "0">>
\* a missing (undefined) or empty phoneNumber: both are falsy
NoPhone == <<>>

\* a missing (undefined) or empty string field: both are falsy
None == ""

ValidPhones == {PhoneA, PhoneB}
InvalidPhones == {NoPhone, PhoneShort, PhoneLong, PhoneAlpha}

\* The query strings of the GET /api/weather requests that are sent.
WeatherQueries ==
    {[city |-> ct, district |-> d] : ct \in {None, "Melur"}, d \in {None, "Madurai"}}

Places == {<<"Chennai", "Chennai">>, <<"Madurai", "Melur">>}
PartialPlaces == {<<None, "Chennai">>, <<"Chennai", None>>, <<None, None>>}

\* The bodies of the POST /api/subscribe requests that are sent: a valid phone
\* number with a place, complete or not; an invalid one with and without a place.
SubscribeBodies ==
    {[phoneNumber |-> p, district |-> pl[1], city |-> pl[2]] :
        p \in ValidPhones, pl \in Places \cup PartialPlaces}
    \cup
    {[phoneNumber |-> p, district |-> pl[1], city |-> pl[2]] :
        p \in InvalidPhones, pl \in {<<"Chennai", "Chennai">>, <<None, None>>}}

\* The phone numbers of the POST /api/unsubscribe requests that are sent.
UnsubscribePhones == ValidPhones \cup {NoPhone}

\* `+91${phoneNumber}`
CountryCode == <<"+", "9", "1">>

----------------------------------------------------------------------------
(* Subscriber store: Subscriber.findOne, save, deleteOne, find *)

\* /^\d{10}$/.test(phoneNumber)
TestPhoneUnanchored(p) ==
    /\ Len(p) >= PhoneDigits
    /\ \E k \in 0..(Len(p) - PhoneDigits) :
           \A i \in 1..PhoneDigits : p[k + i] \in Digits
TestPhone(p) ==
    /\ Len(p) = PhoneDigits
    /\ \A i \in 1..Len(p) : p[i] \in Digits

Matches(s, phoneNumber) == {i \in 1..Len(s) : s[i].phoneNumber = phoneNumber}

\* Subscriber.findOne({ phoneNumber }): index of the first match, 0 for null
FindOne(s, phoneNumber) ==
    IF Matches(s, phoneNumber) = {} THEN 0
    ELSE CHOOSE i \in Matches(s, phoneNumber) :
            \A k \in Matches(s, phoneNumber) : i <= k

\* new Subscriber({ phoneNumber, district, city })
NewSubscriberSwapped(body) ==
    [phoneNumber |-> body.phoneNumber, district |-> body.city, city |-> body.district]
NewSubscriber(body) ==
    [phoneNumber |-> body.phoneNumber, district |-> body.district, city |-> body.city]

\* phoneNumber: { unique: true }: the insert is rejected with a duplicate-key
\* error when the index already holds the key
DuplicateKeyNoIndex(s, doc) == FALSE
DuplicateKey(s, doc) == Matches(s, doc.phoneNumber) # {}

\* subscriber.save() of a new document that passed the index
Insert(s, doc) == Append(s, doc)

RemoveAt(s, i) == [k \in 1..(Len(s) - 1) |-> IF k < i THEN s[k] ELSE s[k + 1]]

\* Subscriber.deleteOne({ phoneNumber }): removes the first match, if any
DeleteOneAnyFilter(s, phoneNumber) == IF s = <<>> THEN s ELSE Tail(s)
DeleteOne(s, phoneNumber) ==
    IF FindOne(s, phoneNumber) = 0 THEN s ELSE RemoveAt(s, FindOne(s, phoneNumber))

\* result.deletedCount
DeletedCountAcknowledged(s, phoneNumber) == 1
DeletedCount(s, phoneNumber) == IF FindOne(s, phoneNumber) = 0 THEN 0 ELSE 1

(* History of the collection: what subscriber.save() has created and what    *)
(* /api/unsubscribe has answered 200 for.  It is written by the two steps it *)
(* counts and read by no handler.  A history that is not counting stays as   *)
(* it is; one that is counting stops at MaxTally records for a phone number. *)
TallyPhones == ValidPhones \cup InvalidPhones \cup {NoPhone}

NoTally ==
    [counting |-> FALSE,
     created |-> [p \in TallyPhones |-> 0],
     unsubscribed |-> [p \in TallyPhones |-> 0]]

Countable(t, phoneNumber) == t.counting => t.created[phoneNumber] < MaxTally

\* subscriber.save() has inserted a record for phoneNumber
Created(t, phoneNumber) ==
    IF t.counting THEN [t EXCEPT !.created[phoneNumber] = @ + 1] ELSE t

\* res.json({ message: 'Unsubscribed successfully' }), status 200
Unsubscribed(t, phoneNumber) ==
    IF t.counting THEN [t EXCEPT !.unsubscribed[phoneNumber] = @ + 1] ELSE t

----------------------------------------------------------------------------
(* HTTP requests *)

NoBody == [phoneNumber |-> NoPhone, district |-> None, city |-> None]

\* no existing record named in the response
NoExisting == [city |-> None, district |-> None]

\* A client with no request in flight.
IdleReq ==
    [kind |-> "none", pc |-> "idle", body |-> NoBody, status |-> 0,
     error |-> "", existing |-> NoExisting, queries |-> 0, sms |-> <<>>,
     calls |-> <<>>, results |-> <<>>, address |-> <<>>, hourly |-> <<>>,
     daily |-> <<>>]

\* res.status(code).json(...): the handler returns
Respond(r, code) == [r EXCEPT !.pc = "done", !.status = code]

\* catch (error) { res.status(500).json(...) }
Catch(r, error) == [r EXCEPT !.pc = "done", !.status = 500, !.error = error]

\* the confirmation SMS of /api/subscribe
ConfirmationSms(body) ==
    [to |-> CountryCode \o body.phoneNumber, city |-> body.city, district |-> body.district]

\* twilioClient.messages.create(...): one call, delivered or rejected
SmsCall(msg, delivered) == [msg |-> msg, delivered |-> delivered]

(* app.post('/api/subscribe'): from the request to the first await *)
SubscribeValidate(body) ==
    LET r == [IdleReq EXCEPT !.kind = "subscribe", !.body = body]
    IN  IF body.phoneNumber = NoPhone \/ ~TestPhone(body.phoneNumber)
        THEN Respond(r, 400)
        ELSE IF body.district = None \/ body.city = None
        THEN Respond(r, 400)
        ELSE [r EXCEPT !.pc = "findOne"]

SubscribeRequest(c) ==
    /\ req[c].pc = "idle"
    /\ \E body \in SubscribeBodies :
           req' = [req EXCEPT ![c] = SubscribeValidate(body)]
    /\ UNCHANGED <<store, NODE_ENV, job, tally>>

(* await Subscriber.findOne({ phoneNumber }) and the code up to the next await *)
SubscribeFoundUnchecked(r, s) == [r EXCEPT !.queries = @ + 1, !.pc = "save"]
SubscribeFound(r, s) ==
    LET i == FindOne(s, r.body.phoneNumber)
        q == [r EXCEPT !.queries = @ + 1]
    IN  IF i # 0
        THEN [Respond(q, 200) EXCEPT
                 !.existing = [city |-> s[i].city, district |-> s[i].district]]
        ELSE [q EXCEPT !.pc = "save"]

SubscribeFindOneUpdating(c) ==
    LET i == FindOne(store, req[c].body.phoneNumber)
    IN  /\ req[c].kind = "subscribe"
        /\ req[c].pc = "findOne"
        /\ req' = [req EXCEPT ![c] = SubscribeFound(req[c], store)]
        /\ store' = IF i = 0 THEN store
                    ELSE [store EXCEPT ![i] = NewSubscriber(req[c].body)]
        /\ UNCHANGED <<NODE_ENV, job, tally>>
SubscribeFindOne(c) ==
    /\ req[c].kind = "subscribe"
    /\ req[c].pc = "findOne"
    /\ req' = [req EXCEPT ![c] = SubscribeFound(req[c], store)]
    /\ UNCHANGED <<store, NODE_ENV, job, tally>>

(* await subscriber.save() and the code up to the next await *)
SubscribeSavedAlwaysSms(r, env) == [r EXCEPT !.pc = "sms"]
SubscribeSaved(r, env) ==
    IF env # "test" THEN [r EXCEPT !.pc = "sms"] ELSE Respond(r, 201)

SubscribeSave(c) ==
    LET doc == NewSubscriber(req[c].body)
        q == [req[c] EXCEPT !.queries = @ + 1]
    IN  /\ req[c].kind = "subscribe"
        /\ req[c].pc = "save"
        /\ IF DuplicateKey(store, doc)
           THEN /\ req' = [req EXCEPT ![c] = Catch(q, "DuplicateKey")]
                /\ store' = store
                /\ tally' = tally
           ELSE /\ Countable(tally, doc.phoneNumber)
                /\ req' = [req EXCEPT ![c] = SubscribeSaved(q, NODE_ENV)]
                /\ store' = Insert(store, doc)
                /\ tally' = Created(tally, doc.phoneNumber)
        /\ UNCHANGED <<NODE_ENV, job>>

(* await twilioClient.messages.create(...) and the response *)
SubscribeSmsDone(r, delivered) ==
    LET q == [r EXCEPT !.sms = Append(@, SmsCall(ConfirmationSms(r.body), delivered))]
    IN  IF delivered THEN Respond(q, 201) ELSE Catch(q, "DeliveryError")

SubscribeSmsRollback(c) ==
    /\ req[c].kind = "subscribe"
    /\ req[c].pc = "sms"
    /\ \E delivered \in BOOLEAN :
           /\ req' = [req EXCEPT ![c] = SubscribeSmsDone(req[c], delivered)]
           /\ store' = IF delivered THEN store
                       ELSE DeleteOne(store, req[c].body.phoneNumber)
    /\ UNCHANGED <<NODE_ENV, job, tally>>
SubscribeSms(c) ==
    /\ req[c].kind = "subscribe"
    /\ req[c].pc = "sms"
    /\ \E delivered \in BOOLEAN :
           req' = [req EXCEPT ![c] = SubscribeSmsDone(req[c], delivered)]
    /\ UNCHANGED <<store, NODE_ENV, job, tally>>

(* app.post('/api/unsubscribe'): from the request to the first await *)
UnsubscribeValidate(body) ==
    LET r == [IdleReq EXCEPT !.kind = "unsubscribe", !.body = body]
    IN  IF body.phoneNumber = NoPhone
        THEN Respond(r, 400)
        ELSE [r EXCEPT !.pc = "deleteOne"]

UnsubscribeRequest(c) ==
    /\ req[c].pc = "idle"
    /\ \E p \in UnsubscribePhones :
           req' = [req EXCEPT ![c] = UnsubscribeValidate([NoBody EXCEPT !.phoneNumber = p])]
    /\ UNCHANGED <<store, NODE_ENV, job, tally>>

(* await Subscriber.deleteOne({ phoneNumber }) and the response *)
UnsubscribeDeletedUnchecked(r, deletedCount) ==
    Respond([r EXCEPT !.queries = @ + 1], 200)
UnsubscribeDeleted(r, deletedCount) ==
    LET q == [r EXCEPT !.queries = @ + 1]
    IN  IF deletedCount = 0 THEN Respond(q, 404) ELSE Respond(q, 200)

UnsubscribeDeleteOne(c) ==
    /\ req[c].kind = "unsubscribe"
    /\ req[c].pc = "deleteOne"
    /\ req' = [req EXCEPT ![c] =
                 UnsubscribeDeleted(req[c], DeletedCount(store, req[c].body.phoneNumber))]
    /\ store' = DeleteOne(store, req[c].body.phoneNumber)
    /\ tally' = IF req'[c].status = 200
                THEN Unsubscribed(tally, req[c].body.phoneNumber)
                ELSE tally
    /\ UNCHANGED <<NODE_ENV, job>>

(* the response has gone out; the client may send its next request *)
Finish(c) ==
    /\ req[c].pc = "done"
    /\ req' = [req EXCEPT ![c] = IdleReq]
    /\ UNCHANGED <<store, NODE_ENV, job, tally>>

----------------------------------------------------------------------------
(* Weather provider: the outcomes of axios.get in fetchWeatherData *)

\* `${x},Tamil Nadu,India`
Location(x) == <<x, "Tamil Nadu", "India">>

\* datetimeEpoch of hour h of day d (seconds); day 1 starts on a Thursday 18:30 UTC
DayEpoch(d) == (d - 1) * 86400 + 66600
HourEpoch(d, h) == DayEpoch(d) + (h - 1) * 3600

Hour(d, h) == [datetimeEpoch |-> HourEpoch(d, h), temp |-> 80 + h]

\* a day of the payload; only the first day is given hours
Day(d, nHours) ==
    [datetimeEpoch |-> DayEpoch(d), tempmax |-> 90 + d,
     hours |-> [h \in 1..(IF d = 1 THEN nHours ELSE 0) |-> Hour(d, h)]]

NoConditions == [conditions |-> None, temp |-> 0]

\* response.data of a location the provider resolved
OkData(location, nDays, nHours) ==
    [thrown |-> FALSE, isNull |-> FALSE, errorCode |-> 0, resolvedAddress |-> location,
     hasCurrent |-> TRUE, currentConditions |-> [conditions |-> "Rain", temp |-> 84],
     days |-> [d \in 1..nDays |-> Day(d, nHours)]]

\* response.data that carries an errorCode, and nothing else
ErrorData ==
    [thrown |-> FALSE, isNull |-> FALSE, errorCode |-> 1, resolvedAddress |-> <<>>,
     hasCurrent |-> FALSE, currentConditions |-> NoConditions, days |-> <<>>]

\* an empty response.data
NullData == [ErrorData EXCEPT !.isNull = TRUE, !.errorCode = 0]

DayCounts == {1, DailyLimit, MaxDays}
HourCounts == {0, MaxHours}

\* what response.data can be for a location when axios.get does not throw
Payloads(location) ==
    {NullData, ErrorData}
    \cup {OkData(location, n, h) : n \in DayCounts, h \in HourCounts}

\* fetchWeatherData(location) throws 'Failed to fetch weather data' or returns
\* response.data
Thrown == [NullData EXCEPT !.thrown = TRUE]
FetchOutcomes(location) == {Thrown} \cup Payloads(location)

\* !weatherData || weatherData.errorCode
UnusableNullOnly(data) == data.isNull
Unusable(data) == data.isNull \/ data.errorCode # 0

----------------------------------------------------------------------------
(* Response shaping *)

\* new Date(epoch * 1000).toLocaleTimeString([], { hour: '2-digit' }), in IST
HourLabel(epoch) == ((epoch + 19800) \div 3600) % 24

\* toLocaleDateString('en-IN', { weekday, month, day }), in IST: the weekday
\* (0 is Sunday) and the day counted from the epoch
DateLabel(epoch) ==
    [weekday |-> (((epoch + 19800) \div 86400) + 4) % 7,
     day |-> (epoch + 19800) \div 86400]

\* processCurrentConditions(data) throws a TypeError when data.currentConditions
\* or data.days[0] is undefined
ShapingThrows(data) == ~data.hasCurrent \/ Len(data.days) = 0

\* processHourlyForecast(hourlyData)
processHourlyForecast(hourlyData) ==
    [k \in 1..Len(hourlyData) |->
        [time |-> HourLabel(hourlyData[k].datetimeEpoch), temp |-> hourlyData[k].temp]]

\* processDailyForecast(dailyData)
processDailyForecast(dailyData) ==
    [k \in 1..Len(dailyData) |->
        [date |-> DateLabel(dailyData[k].datetimeEpoch), tempmax |-> dailyData[k].tempmax]]

\* Array.prototype.slice(0, n)
SliceUnlimited(a, n) == a
Slice(a, n) == SubSeq(a, 1, IF Len(a) < n THEN Len(a) ELSE n)

----------------------------------------------------------------------------
(* app.get('/api/weather') *)

WeatherValidateCityOnly(city, district) ==
    LET r == [IdleReq EXCEPT !.kind = "weather", !.body.city = city,
                             !.body.district = district]
    IN  IF city = None
        THEN Respond(r, 400)
        ELSE [r EXCEPT !.pc = "fetchCity"]
WeatherValidate(city, district) ==
    LET r == [IdleReq EXCEPT !.kind = "weather", !.body.city = city,
                             !.body.district = district]
    IN  IF city = None \/ district = None
        THEN Respond(r, 400)
        ELSE [r EXCEPT !.pc = "fetchCity"]

WeatherRequest(c) ==
    /\ req[c].pc = "idle"
    /\ \E query \in WeatherQueries :
           req' = [req EXCEPT ![c] = WeatherValidate(query.city, query.district)]
    /\ UNCHANGED <<store, NODE_ENV, job, tally>>

\* the responseData of a usable payload, or the catch when shaping it throws
WeatherRespond(r, data) ==
    IF ShapingThrows(data)
    THEN Catch(r, "TypeError")
    ELSE [Respond(r, 200) EXCEPT
             !.address = data.resolvedAddress,
             !.hourly = processHourlyForecast(data.days[1].hours),
             !.daily = processDailyForecast(Slice(data.days, DailyLimit))]

(* await fetchWeatherData(`${city},Tamil Nadu,India`) and the code up to the next await *)
WeatherCityFetchedFallback(r, data) ==
    LET q == [r EXCEPT !.calls = Append(@, Location(r.body.city)),
                       !.results = Append(@, data)]
    IN  IF data.thrown \/ Unusable(data) THEN [q EXCEPT !.pc = "fetchDistrict"]
        ELSE WeatherRespond(q, data)
WeatherCityFetched(r, data) ==
    LET q == [r EXCEPT !.calls = Append(@, Location(r.body.city)),
                       !.results = Append(@, data)]
    IN  IF data.thrown THEN Catch(q, "UpstreamError")
        ELSE IF Unusable(data) THEN [q EXCEPT !.pc = "fetchDistrict"]
        ELSE WeatherRespond(q, data)

WeatherFetchCity(c) ==
    /\ req[c].kind = "weather"
    /\ req[c].pc = "fetchCity"
    /\ \E data \in FetchOutcomes(Location(req[c].body.city)) :
           req' = [req EXCEPT ![c] = WeatherCityFetched(req[c], data)]
    /\ UNCHANGED <<store, NODE_ENV, job, tally>>

(* await fetchWeatherData(`${district},Tamil Nadu,India`) and the response *)
WeatherDistrictFetched(r, data) ==
    LET q == [r EXCEPT !.calls = Append(@, Location(r.body.district)),
                       !.results = Append(@, data)]
    IN  IF data.thrown THEN Catch(q, "UpstreamError")
        ELSE IF Unusable(data) THEN Respond(q, 404)
        ELSE WeatherRespond(q, data)

WeatherFetchDistrict(c) ==
    /\ req[c].kind = "weather"
    /\ req[c].pc = "fetchDistrict"
    /\ \E data \in FetchOutcomes(Location(req[c].body.district)) :
           req' = [req EXCEPT ![c] = WeatherDistrictFetched(req[c], data)]
    /\ UNCHANGED <<store, NODE_ENV, job, tally>>

----------------------------------------------------------------------------
(* The alert job: nodeCron.schedule('0 * * * *', ...) *)

\* A run slot of the cron callback with no run in flight.
IdleJob ==
    [pc |-> "idle", subscribers |-> <<>>, i |-> 0, fetches |-> <<>>, sms |-> <<>>,
     log |-> <<>>, caught |-> FALSE]

\* the alert SMS for subscriber sub
AlertSms(sub, current) ==
    [to |-> CountryCode \o sub.phoneNumber, city |-> sub.city,
     conditions |-> current.conditions, temp |-> current.temp]

\* console.log(`Sent alert to ...`) / console.error(`Failed to send alert to ...`)
Logged(jb, sent) ==
    [jb EXCEPT !.log = Append(@, [phoneNumber |-> jb.subscribers[jb.i].phoneNumber,
                                  sent |-> sent])]

\* the for-of loop takes the next subscriber, or the job logs its completion
NextSubscriber(jb) ==
    IF jb.i < Len(jb.subscribers)
    THEN [jb EXCEPT !.i = @ + 1, !.pc = "fetch"]
    ELSE [jb EXCEPT !.pc = "done"]

(* the cron expression matches: the callback starts and awaits Subscriber.find() *)
JobStartSingleFlight(j) ==
    /\ \A k \in Jobs : job[k].pc = "idle"
    /\ job' = [job EXCEPT ![j] = [IdleJob EXCEPT !.pc = "find"]]
    /\ UNCHANGED <<store, NODE_ENV, req, tally>>
JobStart(j) ==
    /\ job[j].pc = "idle"
    /\ job' = [job EXCEPT ![j] = [IdleJob EXCEPT !.pc = "find"]]
    /\ UNCHANGED <<store, NODE_ENV, req, tally>>

(* await Subscriber.find(): the snapshot, or the outer catch *)
JobLoaded(jb, s, ok) ==
    IF ~ok THEN [jb EXCEPT !.pc = "done", !.caught = TRUE]
    ELSE NextSubscriber([jb EXCEPT !.subscribers = s, !.i = 0])

JobFind(j) ==
    /\ job[j].pc = "find"
    /\ \E ok \in BOOLEAN : job' = [job EXCEPT ![j] = JobLoaded(job[j], store, ok)]
    /\ UNCHANGED <<store, NODE_ENV, req, tally>>

(* await fetchWeatherData(`${sub.city},Tamil Nadu,India`) and the code up to the SMS *)
JobFetchedUnawaited(jb, data, env) ==
    LET q == [jb EXCEPT !.fetches = Append(@, Location(jb.subscribers[jb.i].city))]
    IN  IF data.thrown \/ data.isNull \/ ~data.hasCurrent
        THEN NextSubscriber(Logged(q, FALSE))
        ELSE IF env # "test"
        THEN NextSubscriber(q)
        ELSE NextSubscriber(Logged(q, TRUE))
JobFetchedAborting(jb, data, env) ==
    LET q == [jb EXCEPT !.fetches = Append(@, Location(jb.subscribers[jb.i].city))]
    IN  IF data.thrown \/ data.isNull \/ ~data.hasCurrent
        THEN [q EXCEPT !.pc = "done", !.caught = TRUE]
        ELSE IF env # "test"
        THEN [q EXCEPT !.pc = "sms"]
        ELSE NextSubscriber(Logged(q, TRUE))
JobFetched(jb, data, env) ==
    LET q == [jb EXCEPT !.fetches = Append(@, Location(jb.subscribers[jb.i].city))]
    IN  IF data.thrown \/ data.isNull \/ ~data.hasCurrent
        THEN NextSubscriber(Logged(q, FALSE))
        ELSE IF env # "test"
        THEN [q EXCEPT !.pc = "sms"]
        ELSE NextSubscriber(Logged(q, TRUE))

JobFetchRereading(j) ==
    LET jb == IF job[j].i <= Len(store)
              THEN [job[j] EXCEPT !.subscribers = store]
              ELSE job[j]
    IN  /\ job[j].pc = "fetch"
        /\ \E data \in FetchOutcomes(Location(jb.subscribers[jb.i].city)) :
               job' = [job EXCEPT ![j] = JobFetched(jb, data, NODE_ENV)]
        /\ UNCHANGED <<store, NODE_ENV, req, tally>>
JobFetch(j) ==
    /\ job[j].pc = "fetch"
    /\ \E data \in FetchOutcomes(Location(job[j].subscribers[job[j].i].city)) :
           job' = [job EXCEPT ![j] = JobFetched(job[j], data, NODE_ENV)]
    /\ UNCHANGED <<store, NODE_ENV, req, tally>>

(* await twilioClient.messages.create(...) and the end of the iteration *)
JobSmsDoneUncaught(jb, current, delivered) ==
    LET q == [jb EXCEPT !.sms = Append(@, SmsCall(AlertSms(jb.subscribers[jb.i], current),
                                                  delivered))]
    IN  IF delivered THEN NextSubscriber(Logged(q, delivered))
        ELSE [q EXCEPT !.pc = "thrown"]
JobSmsDone(jb, current, delivered) ==
    LET q == [jb EXCEPT !.sms = Append(@, SmsCall(AlertSms(jb.subscribers[jb.i], current),
                                                  delivered))]
    IN  NextSubscriber(Logged(q, delivered))

JobSms(j) ==
    /\ job[j].pc = "sms"
    /\ \E delivered \in BOOLEAN :
           job' = [job EXCEPT ![j] =
                     JobSmsDone(job[j], [conditions |-> "Rain", temp |-> 84], delivered)]
    /\ UNCHANGED <<store, NODE_ENV, req, tally>>

(* the callback has returned *)
JobEnd(j) ==
    /\ job[j].pc = "done"
    /\ job' = [job EXCEPT ![j] = IdleJob]
    /\ UNCHANGED <<store, NODE_ENV, req, tally>>

----------------------------------------------------------------------------
(* Specifications *)

Environments == {"test", "production"}

\* The server starts on an empty collection.
Init ==
    /\ store = <<>>
    /\ NODE_ENV \in Environments
    /\ req = [c \in Clients |-> IdleReq]
    /\ job = [j \in Jobs |-> IdleJob]
    /\ tally = NoTally

\* Subscribe and unsubscribe requests, interleaved at their awaits.
Next ==
    \E c \in Clients :
        \/ SubscribeRequest(c)
        \/ SubscribeFindOne(c)
        \/ SubscribeSave(c)
        \/ SubscribeSms(c)
        \/ UnsubscribeRequest(c)
        \/ UnsubscribeDeleteOne(c)
        \/ Finish(c)

Spec == Init /\ [][Next]_vars

\* Weather requests.
NextWeather ==
    \E c \in Clients :
        \/ WeatherRequest(c)
        \/ WeatherFetchCity(c)
        \/ WeatherFetchDistrict(c)
        \/ Finish(c)

SpecWeather == Init /\ [][NextWeather]_vars

\* The collection the server finds when it starts: the first n of the enrolled
\* subscribers, in store-iteration order.
Enrolled ==
    <<[phoneNumber |-> PhoneA, district |-> "Chennai", city |-> "Chennai"],
      [phoneNumber |-> PhoneB, district |-> "Madurai", city |-> "Melur"],
      [phoneNumber |-> PhoneC, district |-> "Chennai", city |-> "Chennai"],
      [phoneNumber |-> PhoneD, district |-> "Madurai", city |-> "Madurai"]>>

InitJob ==
    /\ \E n \in 0..MaxSubscribers : store = SubSeq(Enrolled, 1, n)
    /\ NODE_ENV \in Environments
    /\ req = [c \in Clients |-> IdleReq]
    /\ job = [j \in Jobs |-> IdleJob]
    /\ tally = NoTally

\* Runs of the alert job.
NextJob ==
    \E j \in Jobs :
        \/ JobStart(j)
        \/ JobFind(j)
        \/ JobFetch(j)
        \/ JobSms(j)
        \/ JobEnd(j)

SpecJob == InitJob /\ [][NextJob]_vars

\* One client that sends requests of all three kinds, one after the other, while
\* one run of the alert job is in flight.
LiveClients == {c \in Clients : \A d \in Clients : c <= d}
LiveJobs == {"run1"}

NextLive ==
    \/ \E c \in LiveClients :
          \/ SubscribeRequest(c)
          \/ SubscribeFindOne(c)
          \/ SubscribeSave(c)
          \/ SubscribeSms(c)
          \/ UnsubscribeRequest(c)
          \/ UnsubscribeDeleteOne(c)
          \/ WeatherRequest(c)
          \/ WeatherFetchCity(c)
          \/ WeatherFetchDistrict(c)
          \/ Finish(c)
    \/ \E j \in LiveJobs :
          \/ JobStart(j)
          \/ JobFind(j)
          \/ JobFetch(j)
          \/ JobSms(j)
          \/ JobEnd(j)

SpecLive == Init /\ [][NextLive]_vars

\* Subscribe and unsubscribe requests of two clients, with the history counting.
TallyClients == {c \in Clients : c <= 2}

InitTally ==
    /\ store = <<>>
    /\ NODE_ENV \in Environments
    /\ req = [c \in Clients |-> IdleReq]
    /\ job = [j \in Jobs |-> IdleJob]
    /\ tally = [NoTally EXCEPT !.counting = TRUE]

NextTally ==
    \E c \in TallyClients :
        \/ SubscribeRequest(c)
        \/ SubscribeFindOne(c)
        \/ SubscribeSave(c)
        \/ SubscribeSms(c)
        \/ UnsubscribeRequest(c)
        \/ UnsubscribeDeleteOne(c)
        \/ Finish(c)

SpecTally == InitTally /\ [][NextTally]_vars

\* Every upstream call of a run (the subscriber load, a weather fetch, an SMS
\* send) eventually returns or fails; the cron timer and the return of the
\* callback are left free.
JobFairness ==
    \A j \in Jobs :
        WF_vars(JobFind(j)) /\ WF_vars(JobFetch(j)) /\ WF_vars(JobSms(j))

SpecJobFair == InitJob /\ [][NextJob]_vars /\ JobFairness

----------------------------------------------------------------------------
(* Properties *)

HasRecord(s, phoneNumber) == \E i \in 1..Len(s) : s[i].phoneNumber = phoneNumber

RecordsOf(s, phoneNumber) == {i \in 1..Len(s) : s[i].phoneNumber = phoneNumber}

\* the records of s with another phone number, in their order
OtherRecords(s, phoneNumber) ==
    LET Other(rec) == rec.phoneNumber # phoneNumber
    IN  SelectSeq(s, Other)

IsTenDigits(p) == p \in [1..PhoneDigits -> Digits]

ValidBody(b) == IsTenDigits(b.phoneNumber) /\ b.district # None /\ b.city # None

IsSubscribe(c) == req[c].kind = "subscribe"
IsUnsubscribe(c) == req[c].kind = "unsubscribe"

\* client c's handler takes the step that follows the await it is suspended at
Resumes(c, pc) == req[c].pc = pc /\ req'[c] # req[c]

\* client c sends a request of the given kind
Sends(c, kind) == req[c].pc = "idle" /\ req'[c].kind = kind

\* C1: the subscriber store never holds two records with the same phone number,
\* whatever the interleaving of subscribe and unsubscribe requests.
C1_OneRecordPerPhone ==
    \A i, k \in 1..Len(store) :
        store[i].phoneNumber = store[k].phoneNumber => i = k

\* Two subscribe requests for one phone number passed the existence check; one has
\* saved, the save of the other was rejected by the unique index.
C1_Witness ==
    \E c, d \in Clients :
        /\ c # d
        /\ IsSubscribe(c) /\ IsSubscribe(d)
        /\ req[c].body.phoneNumber = req[d].body.phoneNumber
        /\ req[c].pc = "sms"
        /\ req[d].pc = "done" /\ req[d].queries = 2 /\ req[d].status = 500
        /\ Cardinality(RecordsOf(store, req[c].body.phoneNumber)) = 1

\* C2: a subscribe request with a 10-digit phone number, a district and a city
\* passes validation; when the phone number has no record it goes on to save, and
\* when it has none as the save reaches the store, the store then holds a record
\* with the submitted phone number, district and city; the response is 201 once
\* the confirmation SMS is delivered, or at once when the SMS is skipped.
C2_Step(c) ==
    /\ (Sends(c, "subscribe") /\ ValidBody(req'[c].body))
          => req'[c].pc = "findOne"
    /\ (IsSubscribe(c) /\ Resumes(c, "findOne")
            /\ ~HasRecord(store, req[c].body.phoneNumber))
          => (req'[c].pc = "save" /\ store' = store)
    /\ (IsSubscribe(c) /\ Resumes(c, "save")
            /\ ~HasRecord(store, req[c].body.phoneNumber))
          => /\ \E i \in 1..Len(store') :
                   store'[i] = [phoneNumber |-> req[c].body.phoneNumber,
                                district |-> req[c].body.district,
                                city |-> req[c].body.city]
             /\ IF NODE_ENV = "test"
                THEN req'[c].pc = "done" /\ req'[c].status = 201
                ELSE req'[c].pc = "sms"
    /\ (IsSubscribe(c) /\ Resumes(c, "sms")
            /\ req'[c].sms[Len(req'[c].sms)].delivered)
          => (req'[c].pc = "done" /\ req'[c].status = 201)

C2_SubscribeCreates == [][\A c \in Clients : C2_Step(c)]_vars

C2_Witness ==
    \E c \in Clients :
        /\ IsSubscribe(c) /\ req[c].pc = "done" /\ req[c].status = 201
        /\ req[c].sms # <<>>
        /\ \E i \in 1..Len(store) :
              /\ store[i].phoneNumber = req[c].body.phoneNumber
              /\ store[i].district = req[c].body.district
              /\ store[i].city = req[c].body.city

\* C3: a subscribe request that finds a record for its phone number responds 200,
\* names the city and district of that record, sends no SMS and leaves the store
\* as it is, with exactly one record for the phone number.
C3_Step(c) ==
    (IsSubscribe(c) /\ Resumes(c, "findOne")
        /\ HasRecord(store, req[c].body.phoneNumber))
      => /\ req'[c].pc = "done" /\ req'[c].status = 200
         /\ req'[c].sms = <<>>
         /\ store' = store
         /\ Cardinality(RecordsOf(store', req[c].body.phoneNumber)) = 1
         /\ \A i \in RecordsOf(store', req[c].body.phoneNumber) :
               req'[c].existing = [city |-> store'[i].city, district |-> store'[i].district]

C3_AlreadySubscribed == [][\A c \in Clients : C3_Step(c)]_vars

\* A request answered 200 that carried another city and district than the record.
C3_Witness ==
    \E c \in Clients :
        /\ IsSubscribe(c) /\ req[c].pc = "done" /\ req[c].status = 200
        /\ \E i \in 1..Len(store) :
              /\ store[i].phoneNumber = req[c].body.phoneNumber
              /\ store[i].city # req[c].body.city
              /\ store[i].district # req[c].body.district
              /\ req[c].existing.city = store[i].city

\* C4: an unsubscribe request whose phone number has no record responds 404 and
\* leaves the store unchanged.
C4_Step(c) ==
    (IsUnsubscribe(c) /\ Resumes(c, "deleteOne")
        /\ ~HasRecord(store, req[c].body.phoneNumber))
      => (req'[c].pc = "done" /\ req'[c].status = 404 /\ store' = store)

C4_UnsubscribeUnknown == [][\A c \in Clients : C4_Step(c)]_vars

C4_Witness ==
    \E c \in Clients :
        /\ IsUnsubscribe(c) /\ req[c].pc = "done" /\ req[c].status = 404
        /\ store # <<>>

\* C5: an unsubscribe request whose phone number has a record responds 200, removes
\* that record and leaves the records of the other phone numbers as they are; an
\* unsubscribe request without a phone number responds 400 without a store query.
C5_Step(c) ==
    /\ (IsUnsubscribe(c) /\ Resumes(c, "deleteOne")
            /\ HasRecord(store, req[c].body.phoneNumber))
          => /\ req'[c].pc = "done" /\ req'[c].status = 200
             /\ ~HasRecord(store', req[c].body.phoneNumber)
             /\ store' = OtherRecords(store, req[c].body.phoneNumber)
    /\ (Sends(c, "unsubscribe") /\ req'[c].body.phoneNumber = NoPhone)
          => /\ req'[c].pc = "done" /\ req'[c].status = 400
             /\ req'[c].queries = 0
             /\ store' = store

C5_UnsubscribeRemoves == [][\A c \in Clients : C5_Step(c)]_vars

\* A record was removed and the record of another phone number is still there.
C5_Witness ==
    \E c \in Clients :
        /\ IsUnsubscribe(c) /\ req[c].pc = "done" /\ req[c].status = 200
        /\ ~HasRecord(store, req[c].body.phoneNumber)
        /\ \E i \in 1..Len(store) : store[i].phoneNumber # req[c].body.phoneNumber

\* C6: a subscribe request whose phone number is missing or is not exactly 10
\* digits, or whose district or city is missing, has responded 400 without a
\* store query and without an SMS.
C6_InvalidSubscribe ==
    \A c \in Clients :
        (IsSubscribe(c) /\ ~ValidBody(req[c].body))
          => /\ req[c].pc = "done" /\ req[c].status = 400
             /\ req[c].queries = 0
             /\ req[c].sms = <<>>

\* An 11-digit phone number was rejected, and so was a missing city.
C6_Witness ==
    \E c, d \in Clients :
        /\ IsSubscribe(c) /\ req[c].body.phoneNumber = PhoneLong /\ req[c].status = 400
        /\ IsSubscribe(d) /\ IsTenDigits(req[d].body.phoneNumber)
        /\ req[d].body.city = None /\ req[d].body.district # None /\ req[d].status = 400

\* C7: in a run of the alert job every subscriber of the loaded set has its
\* weather fetched exactly once, in the order of the set, and is sent at most one
\* alert SMS, whatever the fetch or the SMS of another subscriber did; a failed
\* iteration is logged, is not repeated, and does not reach the job's own catch.
C7_Job(jb) ==
    LET n == Len(jb.subscribers)
        started == IF jb.pc \in {"fetch", "sms"} THEN jb.i
                   ELSE IF jb.pc = "done" THEN n ELSE 0
        finished == IF jb.pc \in {"fetch", "sms"} THEN jb.i - 1
                    ELSE IF jb.pc = "done" THEN n ELSE 0
    IN  /\ Len(jb.fetches) = (IF jb.pc = "fetch" THEN started - 1 ELSE started)
        /\ \A k \in 1..Len(jb.fetches) : jb.fetches[k] = Location(jb.subscribers[k].city)
        /\ Len(jb.log) = finished
        /\ \A k \in 1..Len(jb.log) : jb.log[k].phoneNumber = jb.subscribers[k].phoneNumber
        /\ Len(jb.sms) <= Len(jb.fetches)
        /\ \A k \in 1..n :
              Cardinality({m \in 1..Len(jb.sms) :
                  jb.sms[m].msg.to = CountryCode \o jb.subscribers[k].phoneNumber}) <= 1
        /\ jb.caught => (jb.subscribers = <<>> /\ jb.fetches = <<>>)

C7_EachSubscriberOnce == \A j \in Jobs : C7_Job(job[j])

\* A run over three subscribers has completed; the weather fetch of the second
\* failed, and the first and the third were sent their alert.
C7_Witness ==
    \E j \in Jobs :
        /\ job[j].pc = "done" /\ ~job[j].caught
        /\ Len(job[j].subscribers) = 3
        /\ Len(job[j].fetches) = 3
        /\ Len(job[j].sms) = 2
        /\ job[j].sms[1].delivered /\ job[j].sms[2].delivered
        /\ job[j].log[1].sent /\ ~job[j].log[2].sent /\ job[j].log[3].sent

\* C8: when the confirmation SMS is rejected the request responds 500 and the
\* store stays as it is: the record saved by the request is not removed.
C8_Step(c) ==
    (IsSubscribe(c) /\ Resumes(c, "sms")
        /\ ~req'[c].sms[Len(req'[c].sms)].delivered)
      => (req'[c].pc = "done" /\ req'[c].status = 500 /\ store' = store)

C8_SmsFailureKeepsRecord == [][\A c \in Clients : C8_Step(c)]_vars

C8_Witness ==
    \E c \in Clients :
        /\ IsSubscribe(c) /\ req[c].pc = "done" /\ req[c].status = 500
        /\ req[c].sms # <<>>
        /\ \E i \in 1..Len(store) :
              /\ store[i].phoneNumber = req[c].body.phoneNumber
              /\ store[i].city = req[c].body.city
              /\ store[i].district = req[c].body.district

\* C9: a subscribe request whose phone number is in the store when its save
\* reaches the store ends with the 200 response, never with an error status.
C9_Step(c) ==
    (IsSubscribe(c) /\ Resumes(c, "save")
        /\ HasRecord(store, req[c].body.phoneNumber))
      => (req'[c].pc = "done" /\ req'[c].status = 200)

C9_DuplicateIsSuccess == [][\A c \in Clients : C9_Step(c)]_vars

\* an empty result, or one that carries an error code
EmptyOrError(data) == data.isNull \/ data.errorCode # 0

\* C10: a weather request with city and district, whose provider calls do not
\* throw, queries the city first and the district only after an empty or
\* error-coded city result, makes at most two calls, responds 404 exactly when
\* both results are empty or error-coded, and otherwise responds with the address
\* and the forecasts of the first usable result.
C10_Request(r) ==
    LET usable == {k \in 1..Len(r.results) : ~EmptyOrError(r.results[k])}
        first == CHOOSE k \in usable : \A m \in usable : k <= m
    IN  /\ Len(r.calls) <= 2 /\ Len(r.results) = Len(r.calls)
        /\ r.pc = "fetchCity" => r.calls = <<>>
        /\ r.pc = "fetchDistrict" => Len(r.calls) = 1
        /\ Len(r.calls) >= 1 => r.calls[1] = Location(r.body.city)
        /\ Len(r.calls) = 2 =>
              (r.calls[2] = Location(r.body.district) /\ EmptyOrError(r.results[1]))
        /\ (r.pc = "done" /\ \A k \in 1..Len(r.results) : ~r.results[k].thrown) =>
              /\ r.status = 404 <=> (Len(r.results) = 2 /\ usable = {})
              /\ usable = {} => Len(r.results) = 2
              /\ usable # {} =>
                    /\ r.status = 200
                    /\ Len(r.results) = first
                    /\ r.address = r.results[first].resolvedAddress
                    /\ Len(r.hourly) = Len(r.results[first].days[1].hours)
                    /\ \A k \in 1..Len(r.daily) :
                          r.daily[k].tempmax = r.results[first].days[k].tempmax

C10_CityThenDistrict ==
    \A c \in Clients :
        (req[c].kind = "weather" /\ req[c].body.city # None /\ req[c].body.district # None)
          => C10_Request(req[c])

\* The city result carried an error code and the district result was used.
C10_Witness ==
    \E c \in Clients :
        /\ req[c].kind = "weather" /\ req[c].pc = "done" /\ req[c].status = 200
        /\ Len(req[c].calls) = 2
        /\ req[c].results[1].errorCode # 0
        /\ req[c].address = Location(req[c].body.district)

IsWeather(c) == req[c].kind = "weather"

\* C11: a weather request without a city, or without a district, has responded
\* 400 whatever the other parameter is, and has made no provider call.
C11_MissingParameter ==
    \A c \in Clients :
        (IsWeather(c) /\ (req[c].body.city = None \/ req[c].body.district = None))
          => /\ req[c].pc = "done" /\ req[c].status = 400
             /\ req[c].calls = <<>>

\* One request without a city and with a district, one with a city and without a
\* district: both were answered 400.
C11_Witness ==
    \E c, d \in Clients :
        /\ IsWeather(c) /\ req[c].body.city = None /\ req[c].body.district # None
        /\ req[c].status = 400
        /\ IsWeather(d) /\ req[d].body.city # None /\ req[d].body.district = None
        /\ req[d].status = 400

\* the smaller of two numbers
Min(a, b) == IF a < b THEN a ELSE b

\* C14: in a 200 weather response the hourly sequence has one entry per hour of
\* the first day of the payload it was built from, in the same order, and the
\* daily sequence has min(7, number of days) entries, those of the first days in
\* the same order.
C14_Response(r) ==
    LET data == r.results[Len(r.results)]
    IN  /\ Len(r.hourly) = Len(data.days[1].hours)
        /\ \A k \in 1..Len(r.hourly) : r.hourly[k].temp = data.days[1].hours[k].temp
        /\ Len(r.daily) = Min(7, Len(data.days))
        /\ \A k \in 1..Len(r.daily) : r.daily[k].tempmax = data.days[k].tempmax

C14_ForecastLengths ==
    \A c \in Clients :
        (IsWeather(c) /\ req[c].pc = "done" /\ req[c].status = 200) => C14_Response(req[c])

\* A response built from a payload of more than 7 days, with hours in its first.
C14_Witness ==
    \E c \in Clients :
        /\ IsWeather(c) /\ req[c].pc = "done" /\ req[c].status = 200
        /\ Len(req[c].results[Len(req[c].results)].days) > 7
        /\ Len(req[c].daily) = 7
        /\ Len(req[c].hourly) >= 2
        /\ req[c].hourly[1].temp # req[c].hourly[2].temp

\* C16: a provider call that throws ends the weather request with 500: after a
\* failed city call no district call is made, a failed district call gives 500
\* and not 404, and no location is queried twice.
C16_Request(r) ==
    /\ \A k \in 1..Len(r.results) :
          r.results[k].thrown =>
             (r.pc = "done" /\ r.status = 500 /\ Len(r.calls) = k)
    /\ \A k, m \in 1..Len(r.calls) : r.calls[k] = r.calls[m] => k = m

C16_ProviderFailure == \A c \in Clients : IsWeather(c) => C16_Request(req[c])

\* The city result was unusable and the district call failed: 500 after two calls.
C16_Witness ==
    \E c \in Clients :
        /\ IsWeather(c) /\ req[c].pc = "done" /\ req[c].status = 500
        /\ Len(req[c].calls) = 2
        /\ req[c].results[2].thrown

\* the place in the loaded set of the subscriber an alert SMS is addressed to
Recipient(jb, m) ==
    CHOOSE k \in 1..Len(jb.subscribers) :
        jb.sms[m].msg.to = CountryCode \o jb.subscribers[k].phoneNumber

\* C12: a run of the alert job works on one subscriber at a time, in the order
\* of the loaded set: while subscriber i is being fetched or sent its SMS, the
\* iterations of all subscribers before i have ended (each is logged, none has a
\* call pending) and no subscriber after i has been fetched or sent an SMS.
C12_Job(jb) ==
    /\ jb.pc \in {"fetch", "sms"} =>
          /\ jb.i \in 1..Len(jb.subscribers)
          /\ Len(jb.log) = jb.i - 1
          /\ Len(jb.fetches) = (IF jb.pc = "fetch" THEN jb.i - 1 ELSE jb.i)
          /\ \A m \in 1..Len(jb.sms) : Recipient(jb, m) < jb.i
    /\ \A k \in 1..Len(jb.log) : jb.log[k].phoneNumber = jb.subscribers[k].phoneNumber
    /\ \A m, o \in 1..Len(jb.sms) : m < o => Recipient(jb, m) < Recipient(jb, o)

C12_OneAtATime == \A j \in Jobs : C12_Job(job[j])

\* The first of three subscribers was sent its alert, the SMS of the second is
\* pending and the third has not been fetched.
C12_Witness ==
    \E j \in Jobs :
        /\ job[j].pc = "sms" /\ job[j].i = 2
        /\ Len(job[j].subscribers) = 3
        /\ Len(job[j].sms) = 1 /\ Len(job[j].fetches) = 2

InFlight(j) == job[j].pc \in {"find", "fetch", "sms"}

\* C15: nothing keeps a run of the alert job from starting while another run is
\* in flight: a free run can start in every state.
C15_NoReentrancyGuard ==
    \A j \in Jobs : job[j].pc = "idle" => ENABLED JobStart(j)

\* Two runs are in flight at the same time and both have sent an alert SMS to
\* the same subscriber.
C15_Witness ==
    \E j, k \in Jobs :
        /\ j # k
        /\ InFlight(j) /\ InFlight(k)
        /\ \E m \in 1..Len(job[j].sms), o \in 1..Len(job[k].sms) :
              /\ job[j].sms[m].msg.to = job[k].sms[o].msg.to
              /\ job[j].sms[m].delivered /\ job[k].sms[o].delivered

\* C18: when every upstream call returns or fails, a started run of the alert
\* job completes; a run whose subscriber load failed attempts no subscriber; and
\* the loop moves to the next subscriber only in the step in which the pending
\* call of the current one returns, so a call that never returns holds up every
\* later subscriber.
C18_Completes == \A j \in Jobs : InFlight(j) ~> (job[j].pc = "done")

C18_LoadFailure ==
    \A j \in Jobs : job[j].caught => (job[j].fetches = <<>> /\ job[j].sms = <<>>)

C18_Step(j) ==
    (InFlight(j) /\ job'[j] # job[j]) =>
        \/ job[j].pc = "find"
        \/ job[j].pc = "fetch" /\ Len(job'[j].fetches) = Len(job[j].fetches) + 1
        \/ job[j].pc = "sms" /\ Len(job'[j].sms) = Len(job[j].sms) + 1

C18_TickTerminates ==
    /\ C18_Completes
    /\ []C18_LoadFailure
    /\ [][\A j \in Jobs : C18_Step(j)]_vars

\* A run whose subscriber load failed has completed, with subscribers in the store.
C18_Witness ==
    \E j \in Jobs :
        /\ job[j].pc = "done" /\ job[j].caught
        /\ store # <<>>
        /\ job[j].fetches = <<>>

\* the record a subscribe request submits
Submitted(c) ==
    [phoneNumber |-> req[c].body.phoneNumber, district |-> req[c].body.district,
     city |-> req[c].body.city]

\* C13: the store changes only when a subscribe request saves a record for a
\* phone number that has none, or when an unsubscribe request deletes the record
\* of its phone number; a weather request, a run of the alert job and a rejected
\* or already-subscribed subscribe request leave it as it is, and a record keeps
\* its phone number, district and city for as long as it is stored.
C13_Created ==
    \E c \in Clients :
        /\ IsSubscribe(c) /\ Resumes(c, "save")
        /\ ~HasRecord(store, req[c].body.phoneNumber)
        /\ store' = Append(store, Submitted(c))

C13_Deleted ==
    \E c \in Clients :
        /\ IsUnsubscribe(c) /\ Resumes(c, "deleteOne")
        /\ HasRecord(store, req[c].body.phoneNumber)
        /\ store' = OtherRecords(store, req[c].body.phoneNumber)

C13_RecordsKept ==
    \A i \in 1..Len(store), k \in 1..Len(store') :
        store'[k].phoneNumber = store[i].phoneNumber => store'[k] = store[i]

C13_StoreLifecycle ==
    [][(store' # store => (C13_Created \/ C13_Deleted)) /\ C13_RecordsKept]_vars

\* A run of the alert job has attempted a subscriber, and a subscribe request with
\* another city for a stored phone number was answered 200; the record is as saved.
C13_Witness ==
    \E c \in Clients, j \in Jobs :
        /\ IsSubscribe(c) /\ req[c].pc = "done" /\ req[c].status = 200
        /\ \E i \in 1..Len(store) :
              /\ store[i].phoneNumber = req[c].body.phoneNumber
              /\ store[i].city # req[c].body.city
        /\ job[j].pc = "done" /\ Len(job[j].fetches) >= 1

\* C17: in test mode no SMS call is ever made, by a subscribe request or by a run
\* of the alert job; a subscribe request that saves a new record still responds
\* 201, and a run still fetches the weather of every subscriber it loaded.
C17_Step ==
    NODE_ENV = "test" =>
        /\ \A c \in Clients : req'[c].sms = <<>>
        /\ \A j \in Jobs : job'[j].sms = <<>>
        /\ \A c \in Clients :
              (IsSubscribe(c) /\ Resumes(c, "save")
                  /\ ~HasRecord(store, req[c].body.phoneNumber))
                => /\ \E i \in 1..Len(store') : store'[i] = Submitted(c)
                   /\ req'[c].pc = "done" /\ req'[c].status = 201
        /\ \A j \in Jobs :
              (job'[j].pc = "done" /\ ~job'[j].caught)
                => Len(job'[j].fetches) = Len(job'[j].subscribers)

C17_TestModeNoSms == [][C17_Step]_vars

\* In test mode a subscribe request was answered 201 and a run of the alert job
\* has fetched the weather of the subscriber it loaded.
C17_Witness ==
    /\ NODE_ENV = "test"
    /\ \E c \in Clients :
          /\ IsSubscribe(c) /\ req[c].pc = "done" /\ req[c].status = 201
          /\ HasRecord(store, req[c].body.phoneNumber)
    /\ \E j \in Jobs :
          /\ job[j].pc = "done" /\ Len(job[j].fetches) >= 1
          /\ Len(job[j].fetches) = Len(job[j].subscribers)

\* C19: a run of the alert job takes the store as it is when the load returns and
\* keeps that set to its end: what it fetches, logs and sends is what the loaded
\* set says, whatever subscribe and unsubscribe requests do to the store meanwhile.
C19_Step(j) ==
    /\ (job[j].pc = "find" /\ job'[j].pc # "find" /\ ~job'[j].caught)
          => job'[j].subscribers = store
    /\ job[j].pc \in {"fetch", "sms"} => job'[j].subscribers = job[j].subscribers

C19_Attempts(jb) ==
    /\ \A k \in 1..Len(jb.fetches) : jb.fetches[k] = Location(jb.subscribers[k].city)
    /\ \A k \in 1..Len(jb.log) : jb.log[k].phoneNumber = jb.subscribers[k].phoneNumber
    /\ \A m \in 1..Len(jb.sms) :
          \E k \in 1..Len(jb.subscribers) :
              /\ jb.sms[m].msg.to = CountryCode \o jb.subscribers[k].phoneNumber
              /\ jb.sms[m].msg.city = jb.subscribers[k].city
    /\ (jb.pc = "done" /\ ~jb.caught) =>
          (Len(jb.fetches) = Len(jb.subscribers) /\ Len(jb.log) = Len(jb.subscribers))

C19_Snapshot ==
    /\ [][\A j \in Jobs : C19_Step(j)]_vars
    /\ [](\A j \in Jobs : C19_Attempts(job[j]))

\* A completed run attempted a phone number that was unsubscribed after the load,
\* and did not attempt a phone number that was subscribed after the load.
C19_Witness ==
    \E j \in Jobs :
        /\ job[j].pc = "done" /\ ~job[j].caught
        /\ \E k \in 1..Len(job[j].log) : ~HasRecord(store, job[j].log[k].phoneNumber)
        /\ \E i \in 1..Len(store) :
              \A k \in 1..Len(job[j].subscribers) :
                  job[j].subscribers[k].phoneNumber # store[i].phoneNumber

\* C20: of the unsubscribe requests for one phone number, each record created
\* for the number is answered by exactly one 200 and every other request by a
\* 404: two requests both answer 200 only when the number was subscribed again
\* in between, and the 200 responses for a number never exceed the records
\* created for it (they are the records created and no longer stored).
C20_Answered(c) ==
    /\ IsUnsubscribe(c)
    /\ req[c].pc = "done"
    /\ req[c].body.phoneNumber \in ValidPhones

C20_OneSuccessPerRecord ==
    /\ \A p \in ValidPhones :
          /\ tally.unsubscribed[p] <= tally.created[p]
          /\ tally.unsubscribed[p] + Cardinality(RecordsOf(store, p)) = tally.created[p]
    /\ \A c \in Clients : C20_Answered(c) => req[c].status \in {200, 404}
    /\ \A c, d \in Clients :
          (/\ c # d
           /\ C20_Answered(c) /\ C20_Answered(d)
           /\ req[c].body.phoneNumber = req[d].body.phoneNumber
           /\ req[c].status = 200 /\ req[d].status = 200)
          => tally.created[req[c].body.phoneNumber] >= 2

\* Two unsubscribe requests for a number that was subscribed once have both
\* been answered: one with 200, the other with 404.
C20_Witness ==
    \E c, d \in Clients :
        /\ C20_Answered(c) /\ C20_Answered(d)
        /\ req[c].body.phoneNumber = req[d].body.phoneNumber
        /\ req[c].status = 200 /\ req[d].status = 404
        /\ tally.created[req[c].body.phoneNumber] = 1
        /\ tally.unsubscribed[req[c].body.phoneNumber] = 1

====
